---- MODULE Spec2Model ----
(***************************************************************************)
(* A model of the interactive control loop of vmtui.py and winvmtui.py:    *)
(* the selection menu, the USB device manager, the process stream          *)
(* supervisors and the progress-reporting fetcher, together with the       *)
(* external tools they talk to (lsusb, virsh, a child process and its      *)
(* pipes, an HTTP response).                                               *)
(*                                                                         *)
(* One function runs per behaviour: Init picks the program (prog), the     *)
(* function (fn) and its inputs; the actions are the steps of that         *)
(* function and of its environment.                                        *)
(***************************************************************************)
EXTENDS Integers, Sequences, FiniteSets, TLC

VARIABLES
    prog,         \* "vmtui" or "winvmtui": the source file the function is from
    fn,           \* the function that is running
    pc,           \* its position
    CURRENT_VM,   \* the global naming the active VM
    timeout,      \* stdscr's input wait in ms, -1 = blocking
    items,        \* selection_menu: the item list
    current_row,  \* selection_menu, usb_menu_logic: the local current_row
    key,          \* the last value getch() returned
    ret,          \* << >> until the function returns, then <<value>>
    menu_items,   \* usb_menu_logic: the rows built by the last scan
    xml,          \* usb_menu_logic: what virsh dumpxml returned at the last scan
    issued,       \* the commands the last key dispatch issued
    lsusb,        \* external: the host's USB devices, one per lsusb line
    domState,     \* external: state of the domain DomName
    hostdevs,     \* external: USB hostdev entries of the domain DomName
    envLeft,      \* external: changes the outside world may still make
    tog,          \* history: the toggles in succession on one device
    script,       \* external: what the child process will do
    proc,         \* external: what the child process has done
    stdoutPipe,   \* external: the lines in the pipe of the child's stdout
    stderrPipe,   \* external: the lines in the pipe of the child's stderr
    retcode,      \* run_cmd_live_debug: the local retcode, << >> for None
    win,          \* the lines and pieces added to the log window
    output_buffer, \* run_cmd_live_debug: the local output_buffer
    error_buffer, \* run_cmd_live_debug: the local error_buffer
    addFailed,    \* history: an append to the log window has failed
    result,       \* what the supervisor or the fetcher returned
    response,     \* external: the HTTP response being read
    total_size,   \* download_with_progress: the local total_size
    downloaded,   \* download_with_progress: the local downloaded
    written,      \* external: the bytes in the destination file
    bar           \* download_with_progress: the percentage last drawn, or << >>

menuVars == <<timeout, items, current_row, key, ret, menu_items, xml, issued>>
envVars == <<lsusb, domState, hostdevs, envLeft>>
streamVars == <<script, proc, stdoutPipe, stderrPipe, retcode, win,
                output_buffer, error_buffer, addFailed>>
fetchVars == <<response, total_size, downloaded, written, bar>>

VARIABLES
    doms,         \* external: the state of the domain of each VM name
    tools,        \* external: whether the external programs can be launched
    img,          \* external: the files the creation workflow fetches, by index
    vmdirs,       \* external: the VM names that have a directory with a disk
    header,       \* draw_header: the status text drawn last
    msgs,         \* the message boxes the action running has shown
    fetched,      \* what the fetch of the action running returned, if any
    found,        \* history: what create_vm found under the entered name
    installer,    \* external: the VM name of a virt-install in the background
    h             \* external: the height of the screen; no action changes it

mainVars == <<doms, tools, img, vmdirs, header, msgs, fetched, found,
              installer, h>>
vars == <<prog, fn, pc, CURRENT_VM, menuVars, envVars, tog, streamVars, result,
          fetchVars, mainVars>>

-----------------------------------------------------------------------------
(* Bounds *)

MaxItems == 3       \* longest item list given to selection_menu
MaxDevices == 2     \* most lines lsusb prints
MaxEnvChanges == 1  \* most changes of the outside world in one behaviour
MaxDisplay == 2     \* most rows a screen has for the items of a menu

-----------------------------------------------------------------------------
(* Values *)

Progs == {"vmtui", "winvmtui"}

\* getch(): the keys the menus tell apart, "TIMEOUT" being -1 and "OTHER" any
\* other key.
Keys == {"KEY_UP", "KEY_DOWN", "ENTER", "q", "ESC", "OTHER", "TIMEOUT"}

\* The name the module starts with, and a second name.
VmNames == {"driver-dev-vm", "other-vm"}

\* The one domain the virtualization tool may know.
DomName == "driver-dev-vm"

DomStates == {"running", "shut off", "notfound"}

\* The USB devices of the model, by the hexadecimal vendor and product ids
\* lsusb prints: two devices of different vendors, and a third with the vendor
\* id of the first and the product id of the second.
Devices ==
    {[vid |-> "046d", pid |-> "c52b"],
     [vid |-> "1234", pid |-> "5678"],
     [vid |-> "046d", pid |-> "5678"]}

SeqsUpTo(S, n) == UNION {[1..k -> S] : k \in 0..n}

NoKey == "NONE"

-----------------------------------------------------------------------------
(* selection_menu *)

\* The dispatch without the guard current_row > 0 on the up key.
selection_menu_key_unguarded(k, row, n) ==
    IF k = "KEY_UP" THEN [row |-> row - 1, ret |-> << >>]
    ELSE IF k = "KEY_DOWN" /\ row < n - 1 THEN [row |-> row + 1, ret |-> << >>]
    ELSE IF k = "ENTER" THEN [row |-> row, ret |-> <<row>>]
    ELSE IF k = "q" \/ k = "ESC" THEN [row |-> row, ret |-> <<-1>>]
    ELSE [row |-> row, ret |-> << >>]

\* The dispatch with a final branch that leaves the menu on any other key.
selection_menu_key_any_returns(k, row, n) ==
    IF k = "KEY_UP" /\ row > 0 THEN [row |-> row - 1, ret |-> << >>]
    ELSE IF k = "KEY_DOWN" /\ row < n - 1 THEN [row |-> row + 1, ret |-> << >>]
    ELSE IF k = "ENTER" THEN [row |-> row, ret |-> <<row>>]
    ELSE IF k = "TIMEOUT" THEN [row |-> row, ret |-> << >>]
    ELSE [row |-> row, ret |-> <<-1>>]

\* vmtui.py: the key dispatch of selection_menu. The result is the new
\* current_row and the value returned, << >> when the loop goes on.
selection_menu_key(k, row, n) ==
    IF k = "KEY_UP" /\ row > 0 THEN [row |-> row - 1, ret |-> << >>]
    ELSE IF k = "KEY_DOWN" /\ row < n - 1 THEN [row |-> row + 1, ret |-> << >>]
    ELSE IF k = "ENTER" THEN [row |-> row, ret |-> <<row>>]
    ELSE IF k = "q" \/ k = "ESC" THEN [row |-> row, ret |-> <<-1>>]
    ELSE [row |-> row, ret |-> << >>]

\* winvmtui.py: the key dispatch of selection_menu.
win_selection_menu_key(k, row, n) ==
    IF k = "KEY_UP" /\ row > 0 THEN [row |-> row - 1, ret |-> << >>]
    ELSE IF k = "KEY_DOWN" /\ row < n - 1 THEN [row |-> row + 1, ret |-> << >>]
    ELSE IF k = "ENTER" THEN [row |-> row, ret |-> <<row>>]
    ELSE IF k = "q" \/ k = "ESC" THEN [row |-> row, ret |-> <<-1>>]
    ELSE [row |-> row, ret |-> << >>]

Max(a, b) == IF a >= b THEN a ELSE b

\* winvmtui.py: max_display = h - 6, the rows left for the items.
max_display(height) == height - 6

\* The heights of the screen: from no row for the items to MaxDisplay rows.
Heights == {6 + d : d \in 0..MaxDisplay}

\* A screen that shows MaxDisplay items.
TallScreen == 6 + MaxDisplay

\* The first item drawn, with the window moved one row late.
window_start_late(row, md) == IF row >= md THEN Max(0, row - md) ELSE 0

\* winvmtui.py: start, the index of the first item drawn.
window_start(row, md) == IF row >= md THEN Max(0, row - md + 1) ELSE 0

\* getch() returns -1 only when a timeout is set.
CanRead(k) == k = "TIMEOUT" => timeout >= 0

\* One iteration of selection_menu's loop from getch() on: the key is read and
\* dispatched, and the loop either returns or draws the menu again.
SelectionMenuKey(k) ==
    /\ fn = "selection_menu"
    /\ pc = "getch"
    /\ CanRead(k)
    /\ LET r == IF prog = "vmtui"
                THEN selection_menu_key(k, current_row, Len(items))
                ELSE win_selection_menu_key(k, current_row, Len(items))
       IN /\ current_row' = r.row
          /\ ret' = r.ret
          /\ pc' = IF r.ret = << >> THEN "getch" ELSE "returned"
    /\ key' = k
    /\ UNCHANGED mainVars
    /\ UNCHANGED <<prog, fn, CURRENT_VM, timeout, items, menu_items, xml, issued,
                   envVars, tog, streamVars, result, fetchVars>>

-----------------------------------------------------------------------------
(* The external tools of the USB manager *)

\* virsh dumpxml <vm>: the descriptor of the domain, or nothing when virsh
\* fails (run_cmd then returns an empty string).
NoXml == [ok |-> FALSE, hostdevs |-> {}]

dumpxml(vm) ==
    IF vm = DomName /\ domState # "notfound"
    THEN [ok |-> TRUE, hostdevs |-> hostdevs]
    ELSE NoXml

\* The text of a descriptor, as the set of its tokens: each hostdev entry reads
\* <vendor id='0x046d'/><product id='0xc52b'/>.
IdToken(id) == "id='0x" \o id \o "'"

XmlTokens(x) ==
    UNION {{"<vendor", IdToken(d.vid), "/>", "<product", IdToken(d.pid)} :
           d \in x.hostdevs}

\* virsh attach-device/detach-device <vm> <file> --live, the file naming a USB
\* device by vendor and product: the hostdev entries afterwards. The command
\* fails, changing nothing, unless the domain runs; attach needs exactly one
\* host device of that vendor and product, not yet in the domain; detach
\* needs the entry to be there.
HostCount(d) == Cardinality({i \in 1..Len(lsusb) : lsusb[i] = d})

\* The command taking effect whatever the state of the domain.
virsh_device_offline(verb, vm, d) ==
    IF verb = "attach-device" THEN hostdevs \cup {d} ELSE hostdevs \ {d}

virsh_device(verb, vm, d) ==
    IF vm # DomName \/ domState # "running" THEN hostdevs
    ELSE IF verb = "attach-device"
         THEN IF HostCount(d) = 1 /\ d \notin hostdevs
              THEN hostdevs \cup {d} ELSE hostdevs
         ELSE hostdevs \ {d}

-----------------------------------------------------------------------------
(* usb_menu_logic *)

\* f"{d['vid']}:{d['pid']}"
Sig(d) == d.vid \o ":" \o d.pid

\* The test with "or" in place of "and".
IdsInXml_either(d, x) ==
    IdToken(d.vid) \in XmlTokens(x) \/ IdToken(d.pid) \in XmlTokens(x)

\* The test of the scan: both id tokens occur in the descriptor text.
IdsInXml(d, x) == IdToken(d.vid) \in XmlTokens(x) /\ IdToken(d.pid) \in XmlTokens(x)

\* attached_sigs: the signatures of the devices that pass the test, in the
\* order of the device list; empty when the descriptor query returned nothing.
attached_sigs(devices, x) ==
    IF x.ok
    THEN LET hit == SelectSeq(devices, LAMBDA d : IdsInXml(d, x))
         IN [i \in 1..Len(hit) |-> Sig(hit[i])]
    ELSE << >>

InSeq(e, s) == \E i \in 1..Len(s) : s[i] = e

NoDevice == [vid |-> "", pid |-> ""]

\* menu_items: one row per device, or the single row "No USB Devices Found".
build_menu_items(devices, x) ==
    IF devices = << >>
    THEN <<[isdev |-> FALSE, dev |-> NoDevice, is_attached |-> FALSE]>>
    ELSE [i \in 1..Len(devices) |->
            [isdev |-> TRUE, dev |-> devices[i],
             is_attached |-> InSeq(Sig(devices[i]), attached_sigs(devices, x))]]

\* The row left as it is.
clamp_row_none(row, n) == row

\* if current_row >= len(menu_items): current_row = max(0, len(menu_items) - 1)
clamp_row(row, n) == IF row >= n THEN Max(0, n - 1) ELSE row

\* The first half of an iteration of usb_menu_logic: scan the host devices and
\* the descriptor, build the rows, clamp the row and draw.
UsbScan ==
    /\ fn = "usb_menu_logic"
    /\ pc = "scan"
    /\ LET x == dumpxml(CURRENT_VM)
           m == build_menu_items(lsusb, x)
       IN /\ xml' = x
          /\ menu_items' = m
          /\ current_row' = clamp_row(current_row, Len(m))
    /\ pc' = "getch"
    /\ key' = NoKey
    /\ UNCHANGED mainVars
    /\ UNCHANGED <<prog, fn, CURRENT_VM, timeout, items, ret, issued,
                   envVars, tog, streamVars, result, fetchVars>>

\* The choice of the command the wrong way round.
toggle_action_same(item) == IF item.is_attached THEN "attach-device" ELSE "detach-device"

\* The command a toggle of the row issues.
toggle_action(item) == IF item.is_attached THEN "detach-device" ELSE "attach-device"

toggle_cmd(item) ==
    [verb |-> toggle_action(item), vm |-> CURRENT_VM,
     vid |-> item.dev.vid, pid |-> item.dev.pid]

\* The key dispatch of usb_menu_logic on the up and down keys.
usb_menu_key(k, row, n) ==
    IF k = "KEY_UP" /\ row > 0 THEN row - 1
    ELSE IF k = "KEY_DOWN" /\ row < n - 1 THEN row + 1
    ELSE row

\* The history of toggles after a dispatch: a confirm on a device row counts,
\* a timeout changes nothing, any other key ends the succession.
TogAfter(k, item) ==
    IF k = "ENTER" /\ item.isdev
    THEN IF tog.n = 1 /\ tog.dev = item.dev
         THEN [tog EXCEPT !.n = 2]
         ELSE [n |-> 1, dev |-> item.dev, label |-> item.is_attached,
               ext |-> item.dev \in hostdevs]
    ELSE IF k = "TIMEOUT" /\ tog.n < 2 THEN tog
    ELSE [n |-> 0, dev |-> NoDevice, label |-> FALSE, ext |-> FALSE]

\* The second half of an iteration: the key is read and dispatched.
UsbKey(k) ==
    /\ fn = "usb_menu_logic"
    /\ pc = "getch"
    /\ CanRead(k)
    /\ key' = k
    /\ LET item == menu_items[current_row + 1]
           up == k = "KEY_UP" /\ current_row > 0
           down == k = "KEY_DOWN" /\ current_row < Len(menu_items) - 1
           quit == ~up /\ ~down /\ (k = "q" \/ k = "ESC")
           toggle == ~up /\ ~down /\ k = "ENTER" /\ item.isdev
       IN /\ current_row' = usb_menu_key(k, current_row, Len(menu_items))
          /\ pc' = IF quit THEN "returned" ELSE "scan"
          /\ ret' = IF quit THEN <<-1>> ELSE ret
          /\ issued' = IF toggle THEN <<toggle_cmd(item)>> ELSE << >>
          /\ hostdevs' = IF toggle
                         THEN virsh_device(toggle_action(item), CURRENT_VM, item.dev)
                         ELSE hostdevs
          /\ tog' = TogAfter(k, item)
    /\ UNCHANGED mainVars
    /\ UNCHANGED <<prog, fn, CURRENT_VM, timeout, items, menu_items, xml,
                   lsusb, domState, envLeft, streamVars, result, fetchVars>>

-----------------------------------------------------------------------------
(* The outside world: devices are plugged and unplugged, the domain changes *)

NoTog == [n |-> 0, dev |-> NoDevice, label |-> FALSE, ext |-> FALSE]

RemoveAt(s, i) == [j \in 1..(Len(s) - 1) |-> IF j < i THEN s[j] ELSE s[j + 1]]

EnvPlug(d) ==
    /\ fn = "usb_menu_logic" /\ pc # "returned"
    /\ envLeft > 0
    /\ Len(lsusb) < MaxDevices
    /\ lsusb' = Append(lsusb, d)
    /\ envLeft' = envLeft - 1
    /\ tog' = NoTog
    /\ UNCHANGED mainVars
    /\ UNCHANGED <<prog, fn, pc, CURRENT_VM, menuVars, domState, hostdevs,
                   streamVars, result, fetchVars>>

EnvUnplug(i) ==
    /\ fn = "usb_menu_logic" /\ pc # "returned"
    /\ envLeft > 0
    /\ i \in 1..Len(lsusb)
    /\ lsusb' = RemoveAt(lsusb, i)
    /\ envLeft' = envLeft - 1
    /\ tog' = NoTog
    /\ UNCHANGED mainVars
    /\ UNCHANGED <<prog, fn, pc, CURRENT_VM, menuVars, domState, hostdevs,
                   streamVars, result, fetchVars>>

EnvDomain(s) ==
    /\ fn = "usb_menu_logic" /\ pc # "returned"
    /\ envLeft > 0
    /\ s # domState
    /\ domState' = s
    /\ hostdevs' = IF s = "notfound" THEN {} ELSE hostdevs
    /\ envLeft' = envLeft - 1
    /\ tog' = NoTog
    /\ UNCHANGED mainVars
    /\ UNCHANGED <<prog, fn, pc, CURRENT_VM, menuVars, lsusb,
                   streamVars, result, fetchVars>>

-----------------------------------------------------------------------------
(* The menus *)

\* The variables of the functions that do not run.
NoResult == [done |-> FALSE, success |-> FALSE, err |-> << >>]

NoResponse == [open |-> FALSE, length |-> << >>, body |-> 0]

StreamIdle ==
    /\ script = [launch |-> FALSE, out |-> 0, err |-> 0, code |-> 0]
    /\ proc = [out |-> 0, err |-> 0, exited |-> FALSE]
    /\ stdoutPipe = << >>
    /\ stderrPipe = << >>
    /\ retcode = << >>
    /\ win = << >>
    /\ output_buffer = << >>
    /\ error_buffer = << >>
    /\ addFailed = FALSE

MainIdle ==
    /\ doms = << >>
    /\ tools = {}
    /\ img = [f \in {0} |-> "absent"]
    /\ vmdirs = {}
    /\ header = ""
    /\ msgs = << >>
    /\ fetched = "none"
    /\ found = << >>
    /\ installer = << >>

FetchIdle ==
    /\ response = NoResponse
    /\ total_size = 0
    /\ downloaded = 0
    /\ written = 0
    /\ bar = << >>

InitSelectionMenu ==
    /\ fn = "selection_menu"
    /\ prog \in Progs
    /\ pc = "getch"
    /\ CURRENT_VM = DomName
    /\ timeout = IF prog = "vmtui" THEN 1000 ELSE -1
    /\ items \in SeqsUpTo({"item"}, MaxItems)
    /\ h \in IF prog = "winvmtui" THEN Heights ELSE {TallScreen}
    /\ current_row = 0
    /\ key = NoKey
    /\ ret = << >>
    /\ menu_items = << >>
    /\ xml = NoXml
    /\ issued = << >>
    /\ lsusb = << >>
    /\ domState = "notfound"
    /\ hostdevs = {}
    /\ envLeft = 0
    /\ tog = NoTog
    /\ StreamIdle /\ FetchIdle /\ result = NoResult /\ MainIdle

InitUsbMenu ==
    /\ fn = "usb_menu_logic"
    /\ prog = "vmtui"
    /\ pc = "scan"
    /\ CURRENT_VM \in VmNames
    /\ timeout = 2000
    /\ h = TallScreen
    /\ items = << >>
    /\ current_row = 0
    /\ key = NoKey
    /\ ret = << >>
    /\ menu_items = << >>
    /\ xml = NoXml
    /\ issued = << >>
    /\ lsusb \in SeqsUpTo(Devices, MaxDevices)
    /\ domState \in DomStates
    /\ hostdevs \in SUBSET Devices
    /\ domState = "notfound" => hostdevs = {}
    /\ envLeft = MaxEnvChanges
    /\ tog = NoTog
    /\ StreamIdle /\ FetchIdle /\ result = NoResult /\ MainIdle

InitMenus == InitSelectionMenu \/ InitUsbMenu

NextMenus ==
    \/ \E k \in Keys : SelectionMenuKey(k)
    \/ UsbScan
    \/ \E k \in Keys : UsbKey(k)
    \/ \E d \in Devices : EnvPlug(d)
    \/ \E i \in 1..MaxDevices : EnvUnplug(i)
    \/ \E s \in DomStates : EnvDomain(s)

SpecMenus == InitMenus /\ [][NextMenus]_vars

-----------------------------------------------------------------------------
(* Properties of the menus *)

Reverse(s) == [i \in 1..Len(s) |-> s[Len(s) + 1 - i]]

\* The row the USB manager highlights.
SelItem == menu_items[current_row + 1]

RowInRange ==
    /\ (fn = "selection_menu" /\ Len(items) > 0) =>
           current_row \in 0..(Len(items) - 1)
    /\ (fn = "usb_menu_logic" /\ menu_items # << >>) =>
           current_row \in 0..(Len(menu_items) - 1)

NoWrapStep ==
    LET n == IF fn = "selection_menu" THEN Len(items) ELSE Len(menu_items)
    IN (pc = "getch" /\ n > 0) =>
           /\ (key' = "KEY_UP" /\ current_row = 0) => current_row' = current_row
           /\ (key' = "KEY_DOWN" /\ current_row = n - 1) => current_row' = current_row

\* C1: in selection_menu (both programs) with a non-empty item list and in the
\* USB menu, the selected index is always within [0, len - 1], and an up key at
\* index 0 or a down key at the last index leaves it unchanged.
C1_IndexInRangeNoWrap == []RowInRange /\ [][NoWrapStep]_vars

\* A down key was read with the last of several items selected.
C1_Witness ==
    /\ fn = "selection_menu" /\ pc = "getch"
    /\ Len(items) >= 2
    /\ key = "KEY_DOWN"
    /\ current_row = Len(items) - 1

\* C2: a selection menu with an empty item list returns only the no-selection
\* sentinel -1, never an index.
C2_EmptyMenuOnlyCancel ==
    (fn = "selection_menu" /\ items = << >> /\ pc = "returned") => ret = <<-1>>

\* The attachment set of a descriptor: the vendor/product pairs of its hostdev
\* entries.
AttachmentSet(x) == x.hostdevs

RowDevices == [i \in 1..Len(menu_items) |-> menu_items[i].dev]

\* C3: at every refresh of the USB menu a device is labeled ATTACHED iff its
\* (vendor, product) pair is in the attachment set of the active VM's
\* descriptor, and its label is the same when the device list is reordered.
C3_LabelIffInAttachmentSet ==
    (fn = "usb_menu_logic" /\ pc = "getch") =>
        \A i \in 1..Len(menu_items) :
            menu_items[i].isdev =>
                /\ menu_items[i].is_attached <=>
                       (menu_items[i].dev \in AttachmentSet(xml))
                /\ menu_items[i].is_attached =
                       build_menu_items(Reverse(RowDevices), xml)
                           [Len(menu_items) + 1 - i].is_attached

\* C4: a device is classified attached exactly when the descriptor text holds
\* both the token id='0x<vendorId>' and the token id='0x<productId>'; it is
\* free when either is missing or the descriptor query returned nothing.
C4_AttachedIffBothTokens ==
    (fn = "usb_menu_logic" /\ pc = "getch") =>
        \A i \in 1..Len(menu_items) :
            menu_items[i].isdev =>
                (menu_items[i].is_attached <=>
                    /\ xml.ok
                    /\ ("id='0x" \o menu_items[i].dev.vid \o "'") \in XmlTokens(xml)
                    /\ ("id='0x" \o menu_items[i].dev.pid \o "'") \in XmlTokens(xml))

\* A refresh showed one device attached and another free, the free one
\* sharing its vendor id with a device of the descriptor.
C4_Witness ==
    /\ fn = "usb_menu_logic" /\ pc = "getch"
    /\ xml.ok
    /\ \E i, j \in 1..Len(menu_items) :
           /\ menu_items[i].isdev /\ menu_items[i].is_attached
           /\ menu_items[j].isdev /\ ~menu_items[j].is_attached
           /\ IdToken(menu_items[j].dev.vid) \in XmlTokens(xml)

\* C5: a confirm key on a device row issues exactly one command, addressed to
\* the active VM with the row's vendor and product id: detach-device when the
\* row was shown ATTACHED at the last render, attach-device when shown FREE.
C5_ToggleIssuesOneInverseCommand ==
    (fn = "usb_menu_logic" /\ pc = "scan" /\ key = "ENTER" /\ SelItem.isdev) =>
        issued = <<[verb |-> IF SelItem.is_attached THEN "detach-device"
                             ELSE "attach-device",
                    vm |-> CURRENT_VM,
                    vid |-> SelItem.dev.vid,
                    pid |-> SelItem.dev.pid]>>

\* A device shown ATTACHED was toggled.
C5_Witness ==
    /\ fn = "usb_menu_logic" /\ pc = "scan" /\ key = "ENTER"
    /\ SelItem.isdev /\ SelItem.is_attached
    /\ Len(issued) = 1

\* C6: with a running active VM and no change from outside, two toggles in
\* succession of one device, a refresh between them, bring the device back to
\* its original label and its original attachment state.
C6_ToggleTwiceRestores ==
    (/\ fn = "usb_menu_logic" /\ pc = "getch"
     /\ tog.n = 2
     /\ CURRENT_VM = DomName /\ domState = "running") =>
        /\ SelItem.dev = tog.dev
        /\ SelItem.is_attached = tog.label
        /\ (tog.dev \in hostdevs) = tog.ext

\* The rows a refresh would draw now.
RowsNow == build_menu_items(lsusb, dumpxml(CURRENT_VM))

\* A confirm key is dispatched on a device row.
ToggleStep ==
    /\ fn = "usb_menu_logic" /\ pc = "getch"
    /\ key' = "ENTER"
    /\ SelItem.isdev

C24_UsbRowInRangeAndToggleOnShown ==
    /\ []((fn = "usb_menu_logic" /\ pc = "getch")
             => /\ Len(menu_items) >= 1
                /\ 0 <= current_row /\ current_row < Len(menu_items))
    /\ [][ToggleStep
             => /\ Len(issued') = 1
                /\ issued'[1].vid = menu_items[current_row + 1].dev.vid
                /\ issued'[1].pid = menu_items[current_row + 1].dev.pid]_vars

\* The device list has become shorter than the rows drawn, the last of which
\* is selected, and the next scan is due.
C24_Witness ==
    /\ fn = "usb_menu_logic" /\ pc = "scan"
    /\ current_row > 0
    /\ current_row = Len(menu_items) - 1
    /\ Len(lsusb) < Len(menu_items)

\* C25: after a toggle of a device, the only one of its ids on the host, of a
\* running active VM and with no change from outside, the refresh that
\* follows shows the device with the inverse of the label it had.
C25_ToggleInvertsLabel ==
    (/\ fn = "usb_menu_logic" /\ pc = "getch"
     /\ tog.n = 1
     /\ HostCount(tog.dev) = 1
     /\ CURRENT_VM = DomName /\ domState = "running") =>
        /\ SelItem.dev = tog.dev
        /\ SelItem.is_attached = ~tog.label

\* C30: in selection_menu of winvmtui.py, whenever the screen has at least
\* one row for the items (h - 6 >= 1), the highlighted row is inside the
\* window drawn: start <= current_row < start + max_display.
C30_HighlightInsideWindow ==
    (fn = "selection_menu" /\ prog = "winvmtui" /\ pc = "getch"
         /\ max_display(h) >= 1)
        => LET start == window_start(current_row, max_display(h))
           IN start <= current_row /\ current_row < start + max_display(h)

\* The menu is drawn with the highlighted row below the first screenful.
C30_Witness ==
    /\ fn = "selection_menu" /\ prog = "winvmtui" /\ pc = "getch"
    /\ max_display(h) >= 1
    /\ current_row >= max_display(h)

\* A key is read in a selection menu.
MenuKeyStep == fn = "selection_menu" /\ pc = "getch" /\ key' \in Keys

\* C23: in selection_menu the confirm key returns the current index, 'q' and
\* ESC return -1, a timeout of getch neither returns nor changes the index,
\* and no other key makes the menu return.
C23_ConfirmCancelTimeout ==
    [][MenuKeyStep =>
          /\ key' = "ENTER" => (pc' = "returned" /\ ret' = <<current_row>>)
          /\ key' \in {"q", "ESC"} => (pc' = "returned" /\ ret' = <<-1>>)
          /\ key' = "TIMEOUT" =>
                 (pc' = "getch" /\ ret' = << >> /\ current_row' = current_row)
          /\ key' \notin {"ENTER", "q", "ESC"} => (pc' = "getch" /\ ret' = << >>)
      ]_vars

\* The confirm key was read below the first row.
C23_Witness ==
    /\ fn = "selection_menu" /\ pc = "returned"
    /\ key = "ENTER"
    /\ current_row > 0
    /\ ret = <<current_row>>

-----------------------------------------------------------------------------
(* The child process of a stream supervisor and its pipes *)

MaxOut == 2    \* most lines the child writes to its standard output
MaxErr == 3    \* most lines the child writes to its standard error
PipeCap == 2   \* lines a pipe holds before a write to it blocks

Scripts == [launch : BOOLEAN, out : 0..MaxOut, err : 0..MaxErr, code : {0, 1}]

\* run_cmd_live passes stderr=subprocess.STDOUT, so the child's standard error
\* is the pipe of its standard output; run_cmd_live_debug gives it a pipe of
\* its own.
ErrToStdout == fn = "run_cmd_live"

Running == fn \in {"run_cmd_live", "run_cmd_live_debug"} /\ pc \notin {"start", "returned", "raised"}

\* The child writes its next line to standard output; the write waits while
\* the pipe is full.
ProcWriteOut ==
    /\ Running /\ ~proc.exited
    /\ proc.out < script.out
    /\ Len(stdoutPipe) < PipeCap
    /\ stdoutPipe' = Append(stdoutPipe, <<"out", proc.out + 1>>)
    /\ proc' = [proc EXCEPT !.out = @ + 1]
    /\ UNCHANGED mainVars
    /\ UNCHANGED <<prog, fn, pc, CURRENT_VM, menuVars, envVars, tog, script,
                   stderrPipe, retcode, win, output_buffer, error_buffer,
                   addFailed, result, fetchVars>>

\* The child writes its next line to standard error.
ProcWriteErr ==
    /\ Running /\ ~proc.exited
    /\ proc.err < script.err
    /\ IF ErrToStdout
       THEN /\ Len(stdoutPipe) < PipeCap
            /\ stdoutPipe' = Append(stdoutPipe, <<"err", proc.err + 1>>)
            /\ UNCHANGED stderrPipe
       ELSE /\ Len(stderrPipe) < PipeCap
            /\ stderrPipe' = Append(stderrPipe, <<"err", proc.err + 1>>)
            /\ UNCHANGED stdoutPipe
    /\ proc' = [proc EXCEPT !.err = @ + 1]
    /\ UNCHANGED mainVars
    /\ UNCHANGED <<prog, fn, pc, CURRENT_VM, menuVars, envVars, tog, script,
                   retcode, win, output_buffer, error_buffer, addFailed, result,
                   fetchVars>>

\* The child exits once it has written everything; its ends of the pipes
\* close.
ProcExit ==
    /\ Running /\ ~proc.exited
    /\ proc.out = script.out /\ proc.err = script.err
    /\ proc' = [proc EXCEPT !.exited = TRUE]
    /\ UNCHANGED mainVars
    /\ UNCHANGED <<prog, fn, pc, CURRENT_VM, menuVars, envVars, tog, script,
                   stdoutPipe, stderrPipe, retcode, win, output_buffer,
                   error_buffer, addFailed, result, fetchVars>>

\* process.poll(): << >> for None while the child runs, then its exit code.
poll == IF proc.exited THEN <<script.code>> ELSE << >>

\* process.stdout.readline() returns: a line is in the pipe, or the pipe is
\* empty and closed (the empty string, here << >>). Otherwise it waits.
CanReadline == stdoutPipe # << >> \/ proc.exited

readline == IF stdoutPipe # << >> THEN <<Head(stdoutPipe)>> ELSE << >>

\* win.addstr(text) inside try/except curses.error: the window after it, when
\* the append works (ok) and when it raises.
addstr_guarded(w, text, ok) == IF ok THEN Append(w, text) ELSE w

-----------------------------------------------------------------------------
(* vmtui.py run_cmd_live *)

\* subprocess.Popen; when it raises, the handler writes the error to the
\* window and returns False, and an error of that write is not caught.
LiveStart(ok) ==
    /\ fn = "run_cmd_live" /\ pc = "start"
    /\ IF script.launch
       THEN /\ pc' = "readline"
            /\ UNCHANGED <<win, result, addFailed>>
       ELSE IF ok
       THEN /\ pc' = "returned"
            /\ win' = Append(win, <<"[Error] Failed to execute">>)
            /\ result' = [done |-> TRUE, success |-> FALSE, err |-> << >>]
            /\ UNCHANGED addFailed
       ELSE /\ pc' = "raised"
            /\ addFailed' = TRUE
            /\ UNCHANGED <<win, result>>
    /\ UNCHANGED mainVars
    /\ UNCHANGED <<prog, fn, CURRENT_VM, menuVars, envVars, tog, script, proc,
                   stdoutPipe, stderrPipe, retcode, output_buffer, error_buffer,
                   fetchVars>>

\* The result of run_cmd_live: process.poll() == 0, and no error text.
live_result(code) == [done |-> TRUE, success |-> (code = <<0>>), err |-> << >>]

\* One iteration of the loop of run_cmd_live.
LiveReadline(ok) ==
    /\ fn = "run_cmd_live" /\ pc = "readline"
    /\ CanReadline
    /\ LET line == readline IN
       IF line = << >> /\ poll # << >>
       THEN /\ pc' = "returned"
            /\ result' = live_result(poll)
            /\ UNCHANGED <<stdoutPipe, win, addFailed>>
       ELSE /\ stdoutPipe' = Tail(stdoutPipe)
            /\ win' = addstr_guarded(win, line[1], ok)
            /\ addFailed' = (addFailed \/ ~ok)
            /\ UNCHANGED <<pc, result>>
    /\ UNCHANGED mainVars
    /\ UNCHANGED <<prog, fn, CURRENT_VM, menuVars, envVars, tog, script, proc,
                   stderrPipe, retcode, output_buffer, error_buffer, fetchVars>>

-----------------------------------------------------------------------------
(* winvmtui.py run_cmd_live_debug *)

\* subprocess.Popen; when it raises, the function returns (False, str(e)).
DebugStart ==
    /\ fn = "run_cmd_live_debug" /\ pc = "start"
    /\ IF script.launch
       THEN /\ pc' = "poll"
            /\ UNCHANGED result
       ELSE /\ pc' = "returned"
            /\ result' = [done |-> TRUE, success |-> FALSE, err |-> <<"exception">>]
    /\ UNCHANGED mainVars
    /\ UNCHANGED <<prog, fn, CURRENT_VM, menuVars, envVars, tog, streamVars,
                   fetchVars>>

\* retcode = process.poll()
DebugPoll ==
    /\ fn = "run_cmd_live_debug" /\ pc = "poll"
    /\ retcode' = poll
    /\ pc' = "readline"
    /\ UNCHANGED mainVars
    /\ UNCHANGED <<prog, fn, CURRENT_VM, menuVars, envVars, tog, script, proc,
                   stdoutPipe, stderrPipe, win, output_buffer, error_buffer,
                   addFailed, result, fetchVars>>

\* The result of run_cmd_live_debug after the loop.
debug_result(code, errbuf) ==
    IF code = <<0>>
    THEN [done |-> TRUE, success |-> TRUE, err |-> << >>]
    ELSE [done |-> TRUE, success |-> FALSE, err |-> errbuf]

\* The rest of an iteration of run_cmd_live_debug: a line is read, kept and
\* shown; when the child had exited at the poll, what is left in both pipes is
\* read, the rest of standard output is shown by an addstr that no inner
\* try guards (okRest: it works), and the function returns.
DebugReadline(ok, okRest) ==
    /\ fn = "run_cmd_live_debug" /\ pc = "readline"
    /\ CanReadline
    /\ LET line == readline
           buf == IF line # << >> THEN output_buffer \o line ELSE output_buffer
           w == IF line # << >> THEN addstr_guarded(win, line[1], ok) ELSE win
           failed == addFailed \/ (line # << >> /\ ~ok)
           rest_out == IF stdoutPipe = << >> THEN << >> ELSE Tail(stdoutPipe)
           rest_err == stderrPipe
           errbuf == IF rest_err # << >> THEN error_buffer \o rest_err
                     ELSE error_buffer
       IN /\ output_buffer' = buf
          /\ IF retcode = << >>
             THEN /\ stdoutPipe' = IF line # << >> THEN Tail(stdoutPipe) ELSE stdoutPipe
                  /\ win' = w
                  /\ addFailed' = failed
                  /\ pc' = "poll"
                  /\ UNCHANGED <<stderrPipe, error_buffer, result>>
             ELSE IF rest_out # << >> /\ ~okRest
             THEN /\ stdoutPipe' = << >>
                  /\ win' = w
                  /\ addFailed' = TRUE
                  /\ pc' = "returned"
                  /\ result' = [done |-> TRUE, success |-> FALSE,
                                err |-> <<"exception">>]
                  /\ UNCHANGED <<stderrPipe, error_buffer>>
             ELSE /\ stdoutPipe' = << >>
                  /\ win' = IF rest_out # << >> THEN Append(w, rest_out) ELSE w
                  /\ addFailed' = failed
                  /\ stderrPipe' = << >>
                  /\ error_buffer' = errbuf
                  /\ pc' = "returned"
                  /\ result' = debug_result(retcode, errbuf)
    /\ UNCHANGED mainVars
    /\ UNCHANGED <<prog, fn, CURRENT_VM, menuVars, envVars, tog, script, proc,
                   retcode, fetchVars>>

-----------------------------------------------------------------------------
(* The stream supervisors *)

MenuIdle ==
    /\ CURRENT_VM = DomName
    /\ timeout = -1
    /\ items = << >>
    /\ current_row = 0
    /\ key = NoKey
    /\ ret = << >>
    /\ menu_items = << >>
    /\ xml = NoXml
    /\ issued = << >>
    /\ lsusb = << >>
    /\ domState = "notfound"
    /\ hostdevs = {}
    /\ envLeft = 0
    /\ tog = NoTog

InitStream ==
    /\ prog \in Progs
    /\ fn = IF prog = "vmtui" THEN "run_cmd_live" ELSE "run_cmd_live_debug"
    /\ pc = "start"
    /\ MenuIdle /\ FetchIdle /\ result = NoResult /\ MainIdle
    /\ h = TallScreen
    /\ script \in Scripts
    /\ proc = [out |-> 0, err |-> 0, exited |-> FALSE]
    /\ stdoutPipe = << >>
    /\ stderrPipe = << >>
    /\ retcode = << >>
    /\ win = << >>
    /\ output_buffer = << >>
    /\ error_buffer = << >>
    /\ addFailed = FALSE

NextStream ==
    \/ ProcWriteOut
    \/ ProcWriteErr
    \/ ProcExit
    \/ \E ok \in BOOLEAN : LiveStart(ok)
    \/ \E ok \in BOOLEAN : LiveReadline(ok)
    \/ DebugStart
    \/ DebugPoll
    \/ \E ok, okRest \in BOOLEAN : DebugReadline(ok, okRest)

SpecStream == InitStream /\ [][NextStream]_vars

-----------------------------------------------------------------------------
(* Properties of the stream supervisors *)

Returned == fn \in {"run_cmd_live", "run_cmd_live_debug"} /\ pc = "returned"

\* C7: the stream supervisor returns success=true when the command exits with
\* code 0, and success=false with non-empty captured error text when it exits
\* non-zero.
C7_SuccessIffExitZeroWithErrorText ==
    (Returned /\ script.launch) =>
        /\ script.code = 0 => result.success
        /\ script.code # 0 => (~result.success /\ result.err # << >>)

\* C8: the stream supervisor terminates when the process exits: while it has
\* not returned, the process or the supervisor can take a step (it never waits
\* on one pipe while the process waits to write to the other).
C8_SupervisorTerminates ==
    (fn \in {"run_cmd_live", "run_cmd_live_debug"} /\ script.launch) =>
        (pc = "returned" \/ ENABLED NextStream)

\* C9: a failed append of process output to the log window never aborts the
\* supervisor: everything the process wrote is read and the success flag
\* returned is (exit code = 0).
C9_AppendFailureNotFatal ==
    (Returned /\ script.launch /\ addFailed) =>
        /\ result.success = (script.code = 0)
        /\ stdoutPipe = << >>
        /\ proc.exited

\* The lines 1..n of the child's standard output, as they pass the pipe.
OutLines(n) == [i \in 1..n |-> <<"out", i>>]

IsOut(e) == e[1] = "out"

\* C22: when the stream supervisor returns, every line the process wrote to
\* its standard output is in the log, in the order written, and in
\* winvmtui.py every such line is in the output buffer too.
C22_EveryLineLoggedInOrder ==
    (Returned /\ script.launch) =>
        /\ fn = "run_cmd_live" => SelectSeq(win, IsOut) = OutLines(script.out)
        /\ fn = "run_cmd_live_debug" =>
               /\ output_buffer = OutLines(script.out)
               /\ win = output_buffer

-----------------------------------------------------------------------------
(* download_with_progress *)

MaxBlocks == 2   \* the sizes of the model go up to MaxBlocks blocks and a byte

block_size == 8192

\* Sizes in bytes: whole blocks of 8192, and a byte more.
Sizes == {k * block_size + r : k \in 0..MaxBlocks, r \in {0, 1}}

\* An HTTP response: the Content-Length it declares (<< >> when it has none)
\* and the bytes the connection delivers before it closes.
Responses == [open : {TRUE}, length : {<< >>} \cup {<<t>> : t \in Sizes}, body : Sizes]

Min(a, b) == IF a <= b THEN a ELSE b

\* int(response.info().get('Content-Length', 0))
content_length(r) == IF r.length = << >> THEN 0 ELSE r.length[1]

\* response.read(block_size): the number of bytes returned. http.client clips
\* the read to what is left of the declared length; the read returns fewer
\* bytes than asked for only at the end of the connection, and returns nothing,
\* without raising, when the connection has closed, also before the declared
\* length was delivered.
read_len(r) ==
    IF r.length = << >> THEN Min(block_size, r.body)
    ELSE Min(Min(block_size, r.length[1]), r.body)

after_read(r, n) ==
    [r EXCEPT !.body = @ - n,
              !.length = IF @ = << >> THEN @ ELSE <<@[1] - n>>]

\* The percentage with the remainder rounded up.
percent_shown_up(d, t) == (d * 100 + t - 1) \div t

\* int(percent * 100) with percent = downloaded / total_size: the quotient is
\* a float in the code; for sizes below 2^46 bytes the integer part of the
\* product is the integer quotient.
percent_shown(d, t) == (d * 100) \div t

\* The bar is drawn after a block only when total_size > 0.
draw_bar(d, t, old) == IF t > 0 THEN <<percent_shown(d, t)>> ELSE old

\* The return of download_with_progress once read() has returned nothing.
fetch_done == [done |-> TRUE, success |-> TRUE, err |-> << >>]

\* The return of download_with_progress from its handler of exceptions.
fetch_failed == [done |-> TRUE, success |-> FALSE, err |-> <<"exception">>]

\* The start of download_with_progress, to the first read. In winvmtui.py the
\* name urllib is not imported, so urlopen raises NameError and the function
\* returns False. In vmtui.py urlopen or the opening of the destination may
\* raise (ok is false), and the function shows the error and returns False.
FetchOpen(ok) ==
    /\ fn = "download_with_progress" /\ pc = "start"
    /\ IF prog = "winvmtui" \/ ~ok
       THEN /\ pc' = "returned"
            /\ result' = fetch_failed
            /\ UNCHANGED <<total_size, downloaded, written, bar>>
       ELSE /\ pc' = "read"
            /\ total_size' = content_length(response)
            /\ downloaded' = 0
            /\ written' = 0
            /\ bar' = << >>
            /\ UNCHANGED result
    /\ UNCHANGED mainVars
    /\ UNCHANGED <<prog, fn, CURRENT_VM, menuVars, envVars, tog, streamVars,
                   response>>

\* One iteration of the loop: a block is read, counted and written. The read
\* or the write may raise (okRead, okWrite are false).
FetchBlock(okRead, okWrite) ==
    /\ fn = "download_with_progress" /\ pc = "read"
    /\ LET n == read_len(response) IN
       IF ~okRead
       THEN /\ pc' = "returned"
            /\ result' = fetch_failed
            /\ UNCHANGED <<response, downloaded, written, bar>>
       ELSE IF n = 0
       THEN /\ pc' = "returned"
            /\ result' = fetch_done
            /\ UNCHANGED <<response, downloaded, written, bar>>
       ELSE /\ response' = after_read(response, n)
            /\ downloaded' = downloaded + n
            /\ IF okWrite
               THEN /\ written' = written + n
                    /\ bar' = draw_bar(downloaded + n, total_size, bar)
                    /\ UNCHANGED <<pc, result>>
               ELSE /\ pc' = "returned"
                    /\ result' = fetch_failed
                    /\ UNCHANGED <<written, bar>>
    /\ UNCHANGED mainVars
    /\ UNCHANGED <<prog, fn, CURRENT_VM, menuVars, envVars, tog, streamVars,
                   total_size>>

InitFetch ==
    /\ prog \in Progs
    /\ fn = "download_with_progress"
    /\ pc = "start"
    /\ MenuIdle /\ StreamIdle /\ result = NoResult /\ MainIdle
    /\ h = TallScreen
    /\ response \in Responses
    /\ total_size = 0
    /\ downloaded = 0
    /\ written = 0
    /\ bar = << >>

NextFetch ==
    \/ \E ok \in BOOLEAN : FetchOpen(ok)
    \/ \E okRead, okWrite \in BOOLEAN : FetchBlock(okRead, okWrite)

SpecFetch == InitFetch /\ [][NextFetch]_vars

\* C10: download_with_progress returns success for a fetch with declared total
\* size T > 0 only if exactly T bytes were read and written; a connection that
\* closes after fewer than T bytes is not reported as success.
C10_SuccessOnlyIfAllRead ==
    (/\ fn = "download_with_progress" /\ pc = "returned"
     /\ result.success /\ total_size > 0) =>
        /\ downloaded = total_size
        /\ written = total_size

\* C11: during a fetch with declared total size T > 0 the percentage drawn is
\* 100 exactly when the bytes written equal T, and below 100 while fewer are
\* written; with no declared size (Content-Length absent or 0) no bar is drawn.
C11_HundredIffAllWritten ==
    fn = "download_with_progress" =>
        /\ total_size = 0 => bar = << >>
        /\ bar # << >> =>
               /\ bar[1] = 100 <=> written = total_size
               /\ written < total_size => bar[1] < 100
        /\ (total_size > 0 /\ written = total_size) => bar = <<100>>

\* A fetch of more than one block has written the declared size and ended
\* with the bar at 100.
C11_Witness ==
    /\ fn = "download_with_progress" /\ pc = "returned"
    /\ total_size > block_size
    /\ bar = <<100>>

-----------------------------------------------------------------------------
(* The main loops: the external tools *)

\* CURRENT_VM as each program sets it when it is loaded.
DefaultVm(p) == IF p = "vmtui" THEN "driver-dev-vm" ELSE "windows-dev-vm"

\* The VM names of a run: the default name and one more.
Names(p) == {DefaultVm(p), "other-vm"}

\* The states of a libvirt domain; "saved" is shut off with a managed save
\* image, which virsh domstate reports as shut off.
MainDomStates == {"notfound", "shut off", "running", "paused", "saved"}

\* The external programs, and the sets of them that can be launched on a host.
Programs == {"systemctl", "virsh", "virt-viewer", "apt", "qemu-img", "virt-install"}

ToolSets == {Programs, Programs \ {"virt-viewer"}, {}}

Cmd(verb, vm) == [verb |-> verb, vm |-> vm]

\* virsh <verb> <vm> on a domain in state s: the state afterwards. A command
\* that does not apply fails with a non-zero exit and changes nothing.
virsh(verb, s) ==
    CASE verb = "start" -> IF s \in {"shut off", "saved"} THEN "running" ELSE s
      [] verb = "managedsave" -> IF s \in {"running", "paused"} THEN "saved" ELSE s
      [] verb = "suspend" -> IF s = "running" THEN "paused" ELSE s
      [] verb = "resume" -> IF s = "paused" THEN "running" ELSE s
      [] verb = "destroy" -> IF s \in {"running", "paused"} THEN "shut off" ELSE s
      [] verb = "undefine" -> IF s = "shut off" THEN "notfound" ELSE s
      [] OTHER -> s

\* The domains after a sequence of commands; nothing happens when virsh
\* cannot be launched.
RECURSIVE run_all(_, _)
run_all(cmds, d) ==
    IF cmds = << >> \/ "virsh" \notin tools THEN d
    ELSE run_all(Tail(cmds),
                 [d EXCEPT ![Head(cmds).vm] = virsh(Head(cmds).verb, @)])

\* virt-install --name=<vm>: defines and starts the domain when the name is
\* free and the installation succeeds.
virt_install(d, vm, ok) ==
    IF "virt-install" \in tools /\ ok /\ d[vm] = "notfound"
    THEN [d EXCEPT ![vm] = "running"]
    ELSE d

\* run_cmd("virsh domstate <vm>", shell=True, check=False): the stripped
\* stdout, empty when the domain is unknown or virsh cannot run.
domstate(d, vm) ==
    IF "virsh" \in tools /\ d[vm] # "notfound"
    THEN IF d[vm] = "saved" THEN "shut off" ELSE d[vm]
    ELSE ""

\* str.upper() on the status texts.
upper(s) ==
    CASE s = "running" -> "RUNNING"
      [] s = "shut off" -> "SHUT OFF"
      [] s = "paused" -> "PAUSED"
      [] s = "Not Found" -> "NOT FOUND"
      [] OTHER -> s

\* draw_header: the status text drawn for the active VM.
draw_header(p, d, vm) ==
    IF p = "vmtui"
    THEN upper(IF domstate(d, vm) = "" THEN "Not Found" ELSE domstate(d, vm))
    ELSE IF domstate(d, vm) # "" THEN domstate(d, vm) ELSE "NOT FOUND"

\* What download_with_progress returns, the file it leaves and the message
\* box it shows (FetchOpen, FetchBlock): a success leaves the whole body or a
\* part of it; winvmtui.py fails at urllib before anything is opened.
download_outcomes(p) ==
    IF p = "vmtui"
    THEN {[success |-> TRUE, file |-> "complete", msg |-> << >>],
          [success |-> TRUE, file |-> "partial", msg |-> << >>],
          [success |-> FALSE, file |-> "absent", msg |-> <<"Download Error">>],
          [success |-> FALSE, file |-> "partial", msg |-> <<"Download Error">>]}
    ELSE {[success |-> FALSE, file |-> "absent", msg |-> << >>]}

-----------------------------------------------------------------------------
(* The main loops: the menus *)

\* menu_options / opts of main.
menu_options(p) ==
    IF p = "vmtui"
    THEN <<"1. Setup Host Environment", "2. Create / Reset VM",
           "3. USB Manager", "4. Console (Access VM)",
           "5. Start / Restore (from Disk)", "6. Hibernate (Save to Disk)",
           "7. Pause (Freeze in RAM)", "8. Resume (Unfreeze RAM)",
           "9. Force Stop VM", "A. Switch Active VM", "Q. Quit">>
    ELSE <<"1. Setup Host (Install OVMF/TPM)", "2. Create New Windows VM",
           "3. Start Existing VM", "4. Open Desktop Viewer",
           "5. Switch Active VM", "6. Force Stop VM",
           "7. Delete VM (Destroy & Delete Files)", "Q. Quit">>

\* The chain with the branches of idx == 8 and idx == 9 of vmtui.py exchanged.
intent_swapped(p, idx) ==
    IF idx = -1 THEN "quit"
    ELSE IF p = "vmtui"
    THEN <<"setup", "create", "usb", "console", "start", "hibernate", "pause",
           "resume", "switch", "force_stop", "quit">>[idx + 1]
    ELSE <<"setup", "create", "start", "viewer", "switch", "force_stop",
           "delete", "quit">>[idx + 1]

\* The branch of main's if/elif chain that the index returned selects.
intent(p, idx) ==
    IF idx = -1 THEN "quit"
    ELSE IF p = "vmtui"
    THEN <<"setup", "create", "usb", "console", "start", "hibernate", "pause",
           "resume", "force_stop", "switch", "quit">>[idx + 1]
    ELSE <<"setup", "create", "start", "viewer", "switch", "force_stop",
           "delete", "quit">>[idx + 1]

\* The files a creation workflow may fetch, by index: in vmtui.py the file of
\* each entry of IMAGES, in winvmtui.py the one driver image.
ImgFiles(p) == IF p = "vmtui" THEN 0..2 ELSE {0}

\* list(IMAGES.keys())
img_names == <<"Ubuntu 24.04 LTS", "Ubuntu 22.04 LTS", "Debian 12">>

\* The branches with the commands of start and resume exchanged.
lifecycle_verb_swapped(i) ==
    CASE i = "start" -> "resume"
      [] i = "hibernate" -> "managedsave"
      [] i = "pause" -> "suspend"
      [] i = "resume" -> "start"
      [] i = "force_stop" -> "destroy"

\* The virsh command of each lifecycle branch of vmtui.py's main.
lifecycle_verb(i) ==
    CASE i = "start" -> "start"
      [] i = "hibernate" -> "managedsave"
      [] i = "pause" -> "suspend"
      [] i = "resume" -> "resume"
      [] i = "force_stop" -> "destroy"

\* The variables no step of main touches.
createFrame == <<prog, fn, key, menu_items, xml, lsusb, domState, hostdevs,
                 tog, streamVars, result, fetchVars, tools, h>>

mainFrame == <<createFrame, found, installer>>

\* The key dispatch of the selection menu that is waiting.
MenuKey(k) ==
    IF prog = "vmtui"
    THEN selection_menu_key(k, current_row, Len(items))
    ELSE win_selection_menu_key(k, current_row, Len(items))

\* selection_menu is entered: vmtui.py sets the 1000 ms timeout, winvmtui.py
\* sets none; the first iteration draws the header and waits in getch().
EnterMenu(name, its) ==
    /\ pc' = name
    /\ items' = its
    /\ current_row' = 0
    /\ ret' = << >>
    /\ timeout' = IF prog = "vmtui" THEN 1000 ELSE timeout
    /\ header' = draw_header(prog, doms', CURRENT_VM')

\* The menu that is waiting goes round its loop: it queries the domain state
\* and draws again.
Redraw(row) ==
    /\ current_row' = row
    /\ header' = draw_header(prog, doms, CURRENT_VM)
    /\ UNCHANGED <<pc, CURRENT_VM, timeout, items, ret, issued, envLeft, doms,
                   img, vmdirs, msgs, fetched>>

\* The action is over: main is at the top of `while True` again.
Finish == pc' = "loop"

\* winvmtui.py main before the loop: check_system_health runs systemctl with
\* subprocess.run outside any try.
MainStart ==
    /\ fn = "main"
    /\ pc = "startup"
    /\ pc' = IF "systemctl" \in tools THEN "loop" ELSE "crashed"
    /\ UNCHANGED <<CURRENT_VM, timeout, items, current_row, ret, issued,
                   envLeft, doms, img, vmdirs, header, msgs, fetched>>
    /\ UNCHANGED mainFrame

\* The top of main's loop: selection_menu("Main Menu", ...) is entered.
MainLoop ==
    /\ fn = "main"
    /\ pc = "loop"
    /\ issued' = << >>
    /\ msgs' = << >>
    /\ fetched' = "none"
    /\ UNCHANGED <<CURRENT_VM, envLeft, doms, img, vmdirs>>
    /\ EnterMenu("main_menu", menu_options(prog))
    /\ UNCHANGED mainFrame

\* A key, or the timeout, in the main menu. When the menu returns vmtui.py
\* sets the blocking mode before it dispatches.
MainKey(k) ==
    /\ fn = "main"
    /\ pc = "main_menu"
    /\ CanRead(k)
    /\ LET r == MenuKey(k)
       IN IF r.ret = << >>
          THEN Redraw(r.row)
          ELSE /\ pc' = "dispatch"
               /\ ret' = r.ret
               /\ timeout' = IF prog = "vmtui" THEN -1 ELSE timeout
               /\ UNCHANGED <<CURRENT_VM, items, current_row, issued, envLeft,
                              doms, img, vmdirs, header, msgs, fetched>>
    /\ UNCHANGED mainFrame

\* Quit, or the main menu cancelled: the loop breaks.
DoQuit ==
    /\ fn = "main"
    /\ pc = "dispatch"
    /\ intent(prog, ret[1]) = "quit"
    /\ pc' = "exited"
    /\ UNCHANGED <<CURRENT_VM, timeout, items, current_row, ret, issued,
                   envLeft, doms, img, vmdirs, header, msgs, fetched>>
    /\ UNCHANGED mainFrame

\* The outside world changes the state of a domain while the main menu waits.
EnvDomMain(vm, s) ==
    /\ fn = "main"
    /\ pc = "main_menu"
    /\ envLeft > 0
    /\ vm \in Names(prog)
    /\ doms[vm] # s
    /\ doms' = [doms EXCEPT ![vm] = s]
    /\ envLeft' = envLeft - 1
    /\ UNCHANGED <<pc, CURRENT_VM, timeout, items, current_row, ret, issued,
                   img, vmdirs, header, msgs, fetched>>
    /\ UNCHANGED mainFrame

-----------------------------------------------------------------------------
(* The main loops: the actions of vmtui.py *)

\* setup_host_logic / setup_host: apt update and apt install in the log
\* window, then a message. winvmtui.py also runs check_system_health, whose
\* systemctl call is outside any try.
DoSetup(ok) ==
    /\ fn = "main"
    /\ pc = "dispatch"
    /\ intent(prog, ret[1]) = "setup"
    /\ issued' = <<Cmd("apt update", ""), Cmd("apt install", "")>>
    /\ IF prog = "vmtui"
       THEN /\ msgs' = IF "apt" \in tools /\ ok
                       THEN <<"Host Setup Complete">>
                       ELSE <<"Host Setup Failed">>
            /\ Finish
       ELSE IF "systemctl" \in tools
       THEN /\ msgs' = <<"Host Setup Complete">>
            /\ Finish
       ELSE /\ pc' = "crashed"
            /\ UNCHANGED msgs
    /\ UNCHANGED <<CURRENT_VM, timeout, items, current_row, ret, envLeft,
                   doms, img, vmdirs, header, fetched>>
    /\ UNCHANGED mainFrame

\* vmtui.py main, idx == 1: the image menu is entered.
DoCreate ==
    /\ fn = "main"
    /\ prog = "vmtui"
    /\ pc = "dispatch"
    /\ intent(prog, ret[1]) = "create"
    /\ UNCHANGED <<CURRENT_VM, issued, envLeft, doms, img, vmdirs, msgs,
                   fetched>>
    /\ EnterMenu("image_menu", img_names)
    /\ UNCHANGED mainFrame

\* A key, or the timeout, in the image menu; with an image chosen
\* create_vm_logic is called.
ImageKey(k) ==
    /\ fn = "main"
    /\ pc = "image_menu"
    /\ CanRead(k)
    /\ LET r == MenuKey(k)
       IN IF r.ret = << >>
          THEN Redraw(r.row)
          ELSE /\ pc' = IF r.ret = <<-1>> THEN "loop" ELSE "create"
               /\ ret' = r.ret
               /\ UNCHANGED <<CURRENT_VM, timeout, items, current_row, issued,
                              envLeft, doms, img, vmdirs, header, msgs,
                              fetched>>
    /\ UNCHANGED mainFrame

\* The commands of create_vm_logic after the download step.
create_cmds(vm) ==
    <<Cmd("qemu-img create", vm), Cmd("cloud-localds", vm), Cmd("destroy", vm),
      Cmd("undefine", vm), Cmd("virt-install", vm)>>

\* create_vm_logic: the image is fetched when its file does not exist, and the
\* function returns when the fetch failed; then disk, seed, removal of the old
\* instance and virt-install.
CreateVm(o, ok) ==
    /\ fn = "main"
    /\ pc = "create"
    /\ o \in download_outcomes(prog)
    /\ LET file == ret[1]
           fetch == img[file] = "absent"
           go == ~fetch \/ o.success
       IN /\ fetched' = IF ~fetch THEN "none"
                        ELSE IF o.success THEN "ok" ELSE "failed"
          /\ img' = IF fetch THEN [img EXCEPT ![file] = o.file] ELSE img
          /\ msgs' = IF fetch THEN o.msg ELSE << >>
          /\ header' = IF fetch THEN draw_header(prog, doms, CURRENT_VM)
                       ELSE header
          /\ issued' = IF go THEN create_cmds(CURRENT_VM) ELSE << >>
          /\ doms' = IF go
                     THEN virt_install(run_all(create_cmds(CURRENT_VM), doms),
                                       CURRENT_VM, ok)
                     ELSE doms
    /\ Finish
    /\ UNCHANGED <<CURRENT_VM, timeout, items, current_row, ret, envLeft,
                   vmdirs>>
    /\ UNCHANGED mainFrame

\* vmtui.py main, idx == 2: usb_menu_logic is entered; it sets the 2000 ms
\* timeout and draws the header in every iteration.
DoUsb ==
    /\ fn = "main"
    /\ prog = "vmtui"
    /\ pc = "dispatch"
    /\ intent(prog, ret[1]) = "usb"
    /\ pc' = "usb_menu"
    /\ timeout' = 2000
    /\ current_row' = 0
    /\ header' = draw_header(prog, doms, CURRENT_VM)
    /\ UNCHANGED <<CURRENT_VM, items, ret, issued, envLeft, doms, img, vmdirs,
                   msgs, fetched>>
    /\ UNCHANGED mainFrame

\* usb_menu_logic as main sees it: 'q' or ESC returns, anything else goes
\* round the loop (the rows and the device commands are UsbScan and UsbKey).
MainUsbKey(k) ==
    /\ fn = "main"
    /\ pc = "usb_menu"
    /\ CanRead(k)
    /\ IF k \in {"q", "ESC"}
       THEN /\ Finish
            /\ UNCHANGED <<CURRENT_VM, timeout, items, current_row, ret,
                           issued, envLeft, doms, img, vmdirs, header, msgs,
                           fetched>>
       ELSE Redraw(current_row)
    /\ UNCHANGED mainFrame

\* vmtui.py main, idx == 3: os.system("virsh console <vm>").
DoConsole ==
    /\ fn = "main"
    /\ prog = "vmtui"
    /\ pc = "dispatch"
    /\ intent(prog, ret[1]) = "console"
    /\ issued' = <<Cmd("console", CURRENT_VM)>>
    /\ Finish
    /\ UNCHANGED <<CURRENT_VM, timeout, items, current_row, ret, envLeft,
                   doms, img, vmdirs, header, msgs, fetched>>
    /\ UNCHANGED mainFrame

\* vmtui.py main, idx 4..8: one run_cmd(["virsh", <verb>, CURRENT_VM]); the
\* hibernate branch shows a message box first.
DoLifecycle ==
    /\ fn = "main"
    /\ prog = "vmtui"
    /\ pc = "dispatch"
    /\ intent(prog, ret[1]) \in
           {"start", "hibernate", "pause", "resume", "force_stop"}
    /\ LET verb == lifecycle_verb(intent(prog, ret[1]))
       IN /\ issued' = <<Cmd(verb, CURRENT_VM)>>
          /\ doms' = run_all(<<Cmd(verb, CURRENT_VM)>>, doms)
          /\ msgs' = IF verb = "managedsave" THEN <<"Hibernating to disk">>
                     ELSE << >>
    /\ Finish
    /\ UNCHANGED <<CURRENT_VM, timeout, items, current_row, ret, envLeft,
                   img, vmdirs, header, fetched>>
    /\ UNCHANGED mainFrame

\* vmtui.py main, idx == 9: input_box sets the blocking mode and reads a
\* name; a name that is not empty becomes CURRENT_VM.
DoSwitch(name) ==
    /\ fn = "main"
    /\ prog = "vmtui"
    /\ pc = "dispatch"
    /\ intent(prog, ret[1]) = "switch"
    /\ timeout' = -1
    /\ CURRENT_VM' = IF name # "" THEN name ELSE CURRENT_VM
    /\ Finish
    /\ UNCHANGED <<items, current_row, ret, issued, envLeft, doms, img,
                   vmdirs, header, msgs, fetched>>
    /\ UNCHANGED mainFrame

-----------------------------------------------------------------------------
(* The main loops: the actions of winvmtui.py *)

\* The commands of force_cleanup_vm and of the first step of delete_vm_logic.
cleanup_cmds(vm) == <<Cmd("echo", vm), Cmd("destroy", vm), Cmd("undefine", vm)>>

\* start_existing_vm: a running VM only gets its viewer; a VM that dominfo
\* does not report gets a message; otherwise virsh start runs in the log
\* window. launch_viewer_as_user calls Popen outside any try.
DoStartWin ==
    /\ fn = "main"
    /\ prog = "winvmtui"
    /\ pc = "dispatch"
    /\ intent(prog, ret[1]) = "start"
    /\ LET s == domstate(doms, CURRENT_VM)
           started == run_all(<<Cmd("start", CURRENT_VM)>>, doms)
           viewer == "virt-viewer" \in tools
       IN IF s = "running"
          THEN /\ msgs' = <<"already running">>
               /\ issued' = <<Cmd("virt-viewer", CURRENT_VM)>>
               /\ pc' = IF viewer THEN "loop" ELSE "crashed"
               /\ UNCHANGED doms
          ELSE IF s = ""
          THEN /\ msgs' = <<"does not exist in KVM">>
               /\ issued' = << >>
               /\ Finish
               /\ UNCHANGED doms
          ELSE IF started # doms
          THEN /\ doms' = started
               /\ issued' = <<Cmd("start", CURRENT_VM),
                              Cmd("virt-viewer", CURRENT_VM)>>
               /\ msgs' = IF viewer THEN <<"VM Started successfully">>
                          ELSE << >>
               /\ pc' = IF viewer THEN "loop" ELSE "crashed"
          ELSE /\ issued' = <<Cmd("start", CURRENT_VM)>>
               /\ msgs' = <<"Failed to start VM">>
               /\ Finish
               /\ UNCHANGED doms
    /\ UNCHANGED <<CURRENT_VM, timeout, items, current_row, ret, envLeft,
                   img, vmdirs, header, fetched>>
    /\ UNCHANGED mainFrame

\* winvmtui.py main, idx == 3: launch_viewer_as_user.
DoViewer ==
    /\ fn = "main"
    /\ prog = "winvmtui"
    /\ pc = "dispatch"
    /\ intent(prog, ret[1]) = "viewer"
    /\ issued' = <<Cmd("virt-viewer", CURRENT_VM)>>
    /\ pc' = IF "virt-viewer" \in tools THEN "loop" ELSE "crashed"
    /\ UNCHANGED <<CURRENT_VM, timeout, items, current_row, ret, envLeft,
                   doms, img, vmdirs, header, msgs, fetched>>
    /\ UNCHANGED mainFrame

\* A list of every name, with or without a directory.
vms_dirs_all(p, dirs) == <<"other-vm", DefaultVm(p)>>

\* sorted list of the directories under win_vms/.
vms_dirs(p, dirs) ==
    SelectSeq(<<"other-vm", DefaultVm(p)>>, LAMBDA n : n \in dirs)

\* switch_vm_menu: a message when there is no directory, else the menu of the
\* directory names and a cancel row.
DoSwitchWin ==
    /\ fn = "main"
    /\ prog = "winvmtui"
    /\ pc = "dispatch"
    /\ intent(prog, ret[1]) = "switch"
    /\ UNCHANGED <<CURRENT_VM, issued, envLeft, doms, img, vmdirs, fetched>>
    /\ IF vmdirs = {}
       THEN /\ msgs' = <<"No VMs found">>
            /\ Finish
            /\ UNCHANGED <<timeout, items, current_row, ret, header>>
       ELSE /\ EnterMenu("switch_menu",
                         vms_dirs(prog, vmdirs) \o <<"[ Cancel ]">>)
            /\ UNCHANGED msgs
    /\ UNCHANGED mainFrame

\* A key in the menu of switch_vm_menu: a directory row becomes CURRENT_VM.
SwitchKey(k) ==
    /\ fn = "main"
    /\ pc = "switch_menu"
    /\ CanRead(k)
    /\ LET r == MenuKey(k)
       IN IF r.ret = << >>
          THEN Redraw(r.row)
          ELSE /\ ret' = r.ret
               /\ IF r.ret[1] # -1 /\ r.ret[1] < Len(items) - 1
                  THEN /\ CURRENT_VM' = items[r.ret[1] + 1]
                       /\ msgs' = <<"Switched to">>
                  ELSE UNCHANGED <<CURRENT_VM, msgs>>
               /\ Finish
               /\ UNCHANGED <<timeout, items, current_row, issued, envLeft,
                              doms, img, vmdirs, header, fetched>>
    /\ UNCHANGED mainFrame

\* winvmtui.py main, idx == 5, "6. Force Stop VM": force_cleanup_vm.
DoForceStopWin ==
    /\ fn = "main"
    /\ prog = "winvmtui"
    /\ pc = "dispatch"
    /\ intent(prog, ret[1]) = "force_stop"
    /\ issued' = cleanup_cmds(CURRENT_VM)
    /\ doms' = run_all(cleanup_cmds(CURRENT_VM), doms)
    /\ Finish
    /\ UNCHANGED <<CURRENT_VM, timeout, items, current_row, ret, envLeft,
                   img, vmdirs, header, msgs, fetched>>
    /\ UNCHANGED mainFrame

\* delete_vm_logic: the confirmation menu is entered.
DoDelete ==
    /\ fn = "main"
    /\ prog = "winvmtui"
    /\ pc = "dispatch"
    /\ intent(prog, ret[1]) = "delete"
    /\ UNCHANGED <<CURRENT_VM, issued, envLeft, doms, img, vmdirs, msgs,
                   fetched>>
    /\ EnterMenu("delete_menu", <<"NO, Cancel", "YES, DELETE EVERYTHING">>)
    /\ UNCHANGED mainFrame

\* The test of delete_vm_logic with every answer but the cancel key going on.
delete_confirmed_unless_cancelled(sel) == sel # <<-1>>

\* delete_vm_logic goes on after the confirmation menu: `if sel != 1: return`.
delete_confirmed(sel) == sel = <<1>>

\* A key in the confirmation menu: only row 1 destroys, undefines and removes
\* the directory.
DeleteKey(k) ==
    /\ fn = "main"
    /\ pc = "delete_menu"
    /\ CanRead(k)
    /\ LET r == MenuKey(k)
       IN IF r.ret = << >>
          THEN Redraw(r.row)
          ELSE /\ ret' = r.ret
               /\ IF delete_confirmed(r.ret)
                  THEN /\ issued' = cleanup_cmds(CURRENT_VM)
                       /\ doms' = run_all(cleanup_cmds(CURRENT_VM), doms)
                       /\ vmdirs' = vmdirs \ {CURRENT_VM}
                       /\ msgs' = IF CURRENT_VM \in vmdirs
                                  THEN <<"Deleted">> ELSE <<"Done">>
                  ELSE UNCHANGED <<issued, doms, vmdirs, msgs>>
               /\ Finish
               /\ UNCHANGED <<CURRENT_VM, timeout, items, current_row,
                              envLeft, img, header, fetched>>
    /\ UNCHANGED mainFrame

\* The listing file_browser shows: the way up, a directory and an ISO file.
iso_items == <<".. (Go Up)", "/isos", "win.iso">>

\* create_vm up to its first menu: the health check (systemctl outside any
\* try, a message when swtpm is missing), the name prompt, whose answer
\* becomes CURRENT_VM, and the test for an existing VM.
DoCreateWin(name, healthy) ==
    /\ fn = "main"
    /\ prog = "winvmtui"
    /\ pc = "dispatch"
    /\ intent(prog, ret[1]) = "create"
    /\ UNCHANGED <<issued, envLeft, doms, img, vmdirs, fetched>>
    /\ IF "systemctl" \notin tools
       THEN /\ pc' = "crashed"
            /\ UNCHANGED <<CURRENT_VM, timeout, items, current_row, ret,
                           header, msgs>>
       ELSE IF ~healthy
       THEN /\ msgs' = <<"Pre-check Failed">>
            /\ Finish
            /\ UNCHANGED <<CURRENT_VM, timeout, items, current_row, ret,
                           header>>
       ELSE /\ CURRENT_VM' = name
            /\ UNCHANGED msgs
            /\ IF domstate(doms, name) # "" \/ name \in vmdirs
               THEN EnterMenu("overwrite_menu", <<"Cancel", "Overwrite">>)
               ELSE EnterMenu("iso_menu", iso_items)
    /\ found' = IF "systemctl" \in tools /\ healthy
              THEN <<[dom |-> doms[name], dir |-> name \in vmdirs]>>
              ELSE << >>
    /\ UNCHANGED <<createFrame, installer>>

\* A key in the overwrite menu: only row 1 cleans the old VM up and goes on to
\* the file browser.
OverwriteKey(k) ==
    /\ fn = "main"
    /\ pc = "overwrite_menu"
    /\ CanRead(k)
    /\ LET r == MenuKey(k)
       IN IF r.ret = << >>
          THEN Redraw(r.row)
          ELSE IF r.ret = <<1>>
          THEN /\ issued' = cleanup_cmds(CURRENT_VM)
               /\ doms' = run_all(cleanup_cmds(CURRENT_VM), doms)
               /\ vmdirs' = vmdirs \ {CURRENT_VM}
               /\ UNCHANGED <<CURRENT_VM, envLeft, img, msgs, fetched>>
               /\ EnterMenu("iso_menu", iso_items)
          ELSE /\ ret' = r.ret
               /\ Finish
               /\ UNCHANGED <<CURRENT_VM, timeout, items, current_row, issued,
                              envLeft, doms, img, vmdirs, header, msgs,
                              fetched>>
    /\ found' = IF pc' = "loop" THEN << >> ELSE found
    /\ UNCHANGED <<createFrame, installer>>

\* A key in file_browser's menu: cancel returns None, the way up and the
\* directory list another directory, the ISO file is the choice.
IsoKey(k) ==
    /\ fn = "main"
    /\ pc = "iso_menu"
    /\ CanRead(k)
    /\ LET r == MenuKey(k)
       IN IF r.ret = << >>
          THEN Redraw(r.row)
          ELSE IF r.ret = <<-1>>
          THEN /\ ret' = r.ret
               /\ Finish
               /\ UNCHANGED <<CURRENT_VM, timeout, items, current_row, issued,
                              envLeft, doms, img, vmdirs, header, msgs,
                              fetched>>
          ELSE IF r.ret = <<2>>
          THEN /\ ret' = r.ret
               /\ pc' = "install"
               /\ UNCHANGED <<CURRENT_VM, timeout, items, current_row, issued,
                              envLeft, doms, img, vmdirs, header, msgs,
                              fetched>>
          ELSE /\ UNCHANGED <<CURRENT_VM, issued, envLeft, doms, img, vmdirs,
                              msgs, fetched>>
               /\ EnterMenu("iso_menu", iso_items)
    /\ found' = IF pc' = "loop" THEN << >> ELSE found
    /\ UNCHANGED <<createFrame, installer>>

\* create_vm from makedirs to the sleep: the driver ISO is fetched when its
\* file does not exist and the result is dropped; then the disk, the
\* instructions, and virt-install started in the background with Popen, which
\* returns at once (an installer still running from an earlier call is taken
\* to have ended). When virt-install cannot be launched the exception is
\* shown.
WinInstall(o) ==
    /\ fn = "main"
    /\ pc = "install"
    /\ o \in download_outcomes(prog)
    /\ vmdirs' = vmdirs \cup {CURRENT_VM}
    /\ fetched' = IF img[0] # "absent" THEN "none"
                  ELSE IF o.success THEN "ok" ELSE "failed"
    /\ img' = IF img[0] = "absent" THEN [img EXCEPT ![0] = o.file] ELSE img
    /\ LET vm == CURRENT_VM
           launched == "virt-install" \in tools
       IN /\ issued' = <<Cmd("qemu-img create", vm), Cmd("echo", vm),
                         Cmd("virt-install", vm)>>
          /\ msgs' = (IF img[0] = "absent" THEN o.msg ELSE << >>)
                     \o <<"READ CAREFULLY">>
                     \o (IF launched THEN << >> ELSE <<"Exception">>)
          /\ installer' = IF launched THEN <<vm>> ELSE << >>
          /\ pc' = IF launched THEN "sleep" ELSE "loop"
    /\ UNCHANGED <<CURRENT_VM, timeout, items, current_row, ret, envLeft,
                   doms, header>>
    /\ found' = << >>
    /\ UNCHANGED createFrame

\* The virt-install process in the background: at a time of its own it
\* defines and starts the domain, or fails, and then is done with libvirt.
\* Like the other changes from outside it is taken while the program waits:
\* in the sleep, in the message box, or in the main menu.
VirtInstallRuns(ok) ==
    /\ fn = "main"
    /\ pc \in {"sleep", "paused_msg", "main_menu"}
    /\ installer # << >>
    /\ doms' = virt_install(doms, installer[1], ok)
    /\ installer' = << >>
    /\ UNCHANGED <<pc, CURRENT_VM, timeout, items, current_row, ret, issued,
                   envLeft, img, vmdirs, header, msgs, fetched, found>>
    /\ UNCHANGED createFrame

\* create_vm after time.sleep(2): virsh suspend, then the viewer and the
\* message box that says the VM is paused; when the viewer cannot be launched
\* the exception is shown and create_vm returns.
WinSuspend ==
    /\ fn = "main"
    /\ pc = "sleep"
    /\ LET vm == CURRENT_VM
           viewer == "virt-viewer" \in tools
       IN /\ issued' = issued \o <<Cmd("suspend", vm), Cmd("virt-viewer", vm)>>
          /\ doms' = run_all(<<Cmd("suspend", vm)>>, doms)
          /\ msgs' = Append(msgs, IF viewer THEN "Ready to Install?"
                                  ELSE "Exception")
          /\ pc' = IF viewer THEN "paused_msg" ELSE "loop"
    /\ UNCHANGED <<CURRENT_VM, timeout, items, current_row, ret, envLeft, img,
                   vmdirs, header, fetched>>
    /\ UNCHANGED mainFrame

\* The operator presses a key in the message box: virsh resume, and create_vm
\* returns.
WinResume ==
    /\ fn = "main"
    /\ pc = "paused_msg"
    /\ issued' = Append(issued, Cmd("resume", CURRENT_VM))
    /\ doms' = run_all(<<Cmd("resume", CURRENT_VM)>>, doms)
    /\ Finish
    /\ UNCHANGED <<CURRENT_VM, timeout, items, current_row, ret, envLeft, img,
                   vmdirs, header, msgs, fetched>>
    /\ UNCHANGED mainFrame

-----------------------------------------------------------------------------
(* The main loops: the specification *)

InitMain ==
    /\ prog \in Progs
    /\ fn = "main"
    /\ pc = IF prog = "vmtui" THEN "loop" ELSE "startup"
    /\ CURRENT_VM = DefaultVm(prog)
    /\ timeout = -1
    /\ items = << >>
    /\ current_row = 0
    /\ key = NoKey
    /\ ret = << >>
    /\ menu_items = << >>
    /\ xml = NoXml
    /\ issued = << >>
    /\ lsusb = << >>
    /\ domState = "notfound"
    /\ hostdevs = {}
    /\ envLeft = MaxEnvChanges
    /\ tog = NoTog
    /\ doms \in [Names(prog) -> MainDomStates]
    /\ doms["other-vm"] = "notfound"
    /\ tools \in ToolSets
    \* every file is on disk from an earlier run, but possibly one
    /\ img \in {[f \in ImgFiles(prog) |-> IF f = g THEN st ELSE "complete"] :
                   g \in ImgFiles(prog), st \in {"absent", "complete"}}
    /\ vmdirs \in IF prog = "vmtui" THEN {{}} ELSE {{}, {DefaultVm(prog)}}
    /\ header = ""
    /\ msgs = << >>
    /\ fetched = "none"
    /\ found = << >>
    /\ installer = << >>
    /\ h = TallScreen
    /\ StreamIdle /\ FetchIdle /\ result = NoResult

NextMain ==
    \/ MainStart
    \/ MainLoop
    \/ \E k \in Keys : MainKey(k)
    \/ DoQuit
    \/ \E vm \in VmNames \cup {"windows-dev-vm"}, s \in MainDomStates :
           EnvDomMain(vm, s)
    \/ \E ok \in BOOLEAN : DoSetup(ok)
    \/ DoCreate
    \/ \E k \in Keys : ImageKey(k)
    \/ \E o \in download_outcomes("vmtui"), ok \in BOOLEAN : CreateVm(o, ok)
    \/ DoUsb
    \/ \E k \in Keys : MainUsbKey(k)
    \/ DoConsole
    \/ DoLifecycle
    \/ \E name \in VmNames \cup {""} : DoSwitch(name)
    \/ DoStartWin
    \/ DoViewer
    \/ DoSwitchWin
    \/ \E k \in Keys : SwitchKey(k)
    \/ DoForceStopWin
    \/ DoDelete
    \/ \E k \in Keys : DeleteKey(k)
    \/ \E name \in {"windows-dev-vm", "other-vm"}, healthy \in BOOLEAN :
           DoCreateWin(name, healthy)
    \/ \E k \in Keys : OverwriteKey(k)
    \/ \E k \in Keys : IsoKey(k)
    \/ \E o \in download_outcomes("winvmtui") : WinInstall(o)
    \/ \E ok \in BOOLEAN : VirtInstallRuns(ok)
    \/ WinSuspend
    \/ WinResume

SpecMain == InitMain /\ [][NextMain]_vars

-----------------------------------------------------------------------------
(* Properties of the main loops *)

Has(seq, x) == \E i \in 1..Len(seq) : seq[i] = x

\* main is about to run the branch i of its if/elif chain.
AtDispatch(i) == fn = "main" /\ pc = "dispatch" /\ intent(prog, ret[1]) = i

\* The status text txt is what virsh domstate reports for vm in d.
Reported(txt, d, vm) ==
    IF domstate(d, vm) = "" THEN txt = "NOT FOUND"
    ELSE upper(txt) = upper(domstate(d, vm))

\* The header drawn when the main menu comes back shows what the tool reports.
HeaderShowsReport ==
    [][(fn = "main" /\ pc = "loop" /\ pc' = "main_menu")
           => Reported(header', doms', CURRENT_VM')]_vars

\* C12: when the fetch of the creation workflow has failed, a message about it
\* has been shown and neither the disk creation nor the VM installation is
\* issued.
C12_FailedFetchAborts ==
    (fn = "main" /\ fetched = "failed") =>
        /\ Has(msgs, "Download Error")
        /\ \A i \in 1..Len(issued) :
               issued[i].verb \notin {"qemu-img create", "virt-install"}

\* C13 as stated: start chosen while the header shows Not Found issues the
\* start command anyway, and the next header shows what the tool reports.
C13_StartIssuedOnNotFound ==
    /\ [][(AtDispatch("start") /\ header = "NOT FOUND")
              => Has(issued', Cmd("start", CURRENT_VM))]_vars
    /\ HeaderShowsReport

\* C13 amended: vmtui.py issues virsh start whatever the state; winvmtui.py
\* issues it exactly when the tool reports the domain and does not report it
\* running, and for a domain the tool does not report it shows a message and
\* issues nothing. The next header shows what the tool reports.
C13_StartChecksOnlyInWin ==
    /\ [][AtDispatch("start") =>
              IF prog = "vmtui"
              THEN issued' = <<Cmd("start", CURRENT_VM)>>
              ELSE /\ Has(issued', Cmd("start", CURRENT_VM))
                          <=> domstate(doms, CURRENT_VM) \notin {"", "running"}
                   /\ domstate(doms, CURRENT_VM) = ""
                          => /\ issued' = << >>
                             /\ msgs' = <<"does not exist in KVM">>]_vars
    /\ HeaderShowsReport

\* vmtui.py has issued virsh start for a VM whose header showed Not Found and
\* which the tool does not know.
C13_Witness ==
    /\ fn = "main" /\ prog = "vmtui" /\ pc = "loop"
    /\ header = "NOT FOUND"
    /\ doms[CURRENT_VM] = "notfound"
    /\ issued = <<Cmd("start", CURRENT_VM)>>

Lifecycle == {"start", "force_stop", "hibernate", "pause", "resume"}

\* C14: each lifecycle intent chosen in the main menu issues exactly one
\* external command, addressed to the VM that is active at that moment.
C14_OneCommandPerIntent ==
    [][(fn = "main" /\ pc = "dispatch" /\ intent(prog, ret[1]) \in Lifecycle)
           => /\ Len(issued') = 1
              /\ issued'[1].vm = CURRENT_VM]_vars

\* C15: force-stop on a VM that is running, paused or saved leaves it defined
\* and reported shut off; a domain becomes unknown only in the deletion and
\* re-creation steps (or from outside).
C15_ForceStopKeepsDefined ==
    /\ [][(AtDispatch("force_stop") /\ "virsh" \in tools
              /\ doms[CURRENT_VM] \in {"running", "paused", "saved"})
             => domstate(doms', CURRENT_VM) = "shut off"]_vars
    /\ [][(fn = "main" /\ \E vm \in Names(prog) :
                              doms[vm] # "notfound" /\ doms'[vm] = "notfound")
             => pc \in {"delete_menu", "overwrite_menu", "create",
                        "main_menu"}]_vars

\* C16 as stated: CURRENT_VM changes only in the switch action.
C16_OnlySwitchChanges ==
    [][(fn = "main" /\ CURRENT_VM' # CURRENT_VM)
           => \/ prog = "vmtui" /\ pc = "dispatch" /\ ret = <<9>>
              \/ prog = "winvmtui" /\ pc = "switch_menu"]_vars

\* C16 amended: CURRENT_VM changes only in the switch action and, in
\* winvmtui.py, at the name prompt of create_vm; every other step, the
\* cancelling ones included, leaves it as it is.
C16_OnlySwitchOrWinCreateChanges ==
    [][(fn = "main" /\ CURRENT_VM' # CURRENT_VM)
           => \/ prog = "vmtui" /\ pc = "dispatch" /\ ret = <<9>>
              \/ prog = "winvmtui" /\ pc = "switch_menu"
              \/ prog = "winvmtui" /\ pc = "dispatch" /\ ret = <<1>>]_vars

\* winvmtui.py: the name prompt of create_vm has made another VM active and
\* the operator has then cancelled at the overwrite menu.
C16_Witness ==
    /\ fn = "main" /\ prog = "winvmtui" /\ pc = "loop"
    /\ items = <<"Cancel", "Overwrite">>
    /\ ret \in {<<0>>, <<-1>>}
    /\ CURRENT_VM = "other-vm"
    /\ "other-vm" \notin vmdirs

\* The names the switch menu of winvmtui.py offers.
Offered == {items[i] : i \in 1..(Len(items) - 1)}

\* C17 as stated: the switch action lets the operator make any name the
\* active one, a name unknown to the tool included, and the header that
\* follows shows Not Found for an unknown name.
C17_AnyNameSelectable ==
    /\ [](AtDispatch("switch") =>
              IF prog = "vmtui"
              THEN \A n \in Names(prog) :
                       ENABLED (DoSwitch(n) /\ CURRENT_VM' = n)
              ELSE ENABLED (DoSwitchWin /\ pc' = "switch_menu"))
    /\ []((fn = "main" /\ pc = "switch_menu") => Names(prog) \subseteq Offered)
    /\ HeaderShowsReport

\* C17 amended: vmtui.py makes any name typed the active one; winvmtui.py
\* offers exactly the names that have a directory under win_vms/, whether the
\* tool knows them or not, and no menu when there is none. The header that
\* follows shows Not Found for a name the tool does not know.
C17_AnyNameOrAnyDirectory ==
    /\ [](AtDispatch("switch") =>
              IF prog = "vmtui"
              THEN \A n \in Names(prog) :
                       ENABLED (DoSwitch(n) /\ CURRENT_VM' = n)
              ELSE vmdirs # {} <=> ENABLED (DoSwitchWin /\ pc' = "switch_menu"))
    /\ []((fn = "main" /\ pc = "switch_menu") => Offered = vmdirs)
    /\ HeaderShowsReport

\* vmtui.py: a name the tool does not know is the active one and the main
\* menu shows Not Found for it.
C17_Witness ==
    /\ fn = "main" /\ prog = "vmtui" /\ pc = "main_menu"
    /\ CURRENT_VM = "other-vm"
    /\ doms["other-vm"] = "notfound"
    /\ header = "NOT FOUND"

WaitingMenus ==
    {"main_menu", "image_menu", "usb_menu", "switch_menu", "delete_menu",
     "overwrite_menu", "iso_menu"}

\* The menu that is waiting ends its wait without a key.
IdleRefresh ==
    \/ MainKey("TIMEOUT") \/ ImageKey("TIMEOUT") \/ MainUsbKey("TIMEOUT")
    \/ SwitchKey("TIMEOUT") \/ DeleteKey("TIMEOUT")
    \/ OverwriteKey("TIMEOUT") \/ IsoKey("TIMEOUT")

\* C18: a menu that waits with no key pressed ends its wait after a bounded
\* timeout and draws again, and every time a menu draws, the header is the
\* state queried in that iteration.
C18_IdleMenuRefreshes ==
    /\ []((fn = "main" /\ pc \in WaitingMenus)
             => /\ timeout > 0
                /\ ENABLED (IdleRefresh
                            /\ Reported(header', doms', CURRENT_VM')))
    /\ [][(fn = "main" /\ pc' \in WaitingMenus /\ header' # header)
             => Reported(header', doms', CURRENT_VM')]_vars

\* C19: while an action dispatched from the main menu runs, the image menu's
\* create_vm_logic included, the input wait is unbounded; a selection menu
\* waits 1000 ms and the USB menu 2000 ms.
C19_ActionsRunBlocking ==
    fn = "main" =>
        /\ pc \in {"dispatch", "create", "install", "sleep", "paused_msg"}
               => timeout = -1
        /\ (prog = "vmtui" /\ pc \in WaitingMenus)
               => timeout = IF pc = "usb_menu" THEN 2000 ELSE 1000

\* C20: no external command that fails or cannot be launched ends the loop:
\* once the main menu has returned, main leaves the loop only by Quit or by
\* the menu being cancelled.
C20_OnlyQuitEndsLoop ==
    (fn = "main" /\ ret # << >>) =>
        /\ pc # "crashed"
        /\ pc = "exited" => intent(prog, ret[1]) = "quit"

\* C27: delete_vm_logic of winvmtui.py issues destroy and undefine and
\* removes the directory only when the row 'YES, DELETE EVERYTHING' was
\* confirmed; when 'NO, Cancel' is confirmed or the menu is cancelled, no
\* command is issued, no domain changes and no directory is removed.
C27_DeleteOnlyAfterYes ==
    [][(fn = "main" /\ pc = "delete_menu") =>
          /\ (issued' # issued \/ doms' # doms \/ vmdirs' # vmdirs) =>
                 /\ ret' = <<current_row>>
                 /\ items[current_row + 1] = "YES, DELETE EVERYTHING"
          /\ (pc' = "loop" /\ ret' \in {<<0>>, <<-1>>}) =>
                 (issued' = issued /\ doms' = doms /\ vmdirs' = vmdirs)]_vars

\* 'NO, Cancel' was confirmed for a VM that is defined and has its directory.
C27_Witness ==
    /\ fn = "main" /\ prog = "winvmtui" /\ pc = "loop"
    /\ items = <<"NO, Cancel", "YES, DELETE EVERYTHING">>
    /\ ret = <<0>>
    /\ doms[CURRENT_VM] # "notfound"
    /\ CURRENT_VM \in vmdirs

\* create_vm of winvmtui.py returns from a place before the install.
ReturnsWithoutInstall ==
    /\ fn = "main" /\ prog = "winvmtui"
    /\ AtDispatch("create") \/ pc \in {"overwrite_menu", "iso_menu"}
    /\ pc' = "loop"

\* C28: when create_vm of winvmtui.py returns without launching an install
\* (the pre-check failed, or the overwrite prompt or the ISO browser was
\* cancelled), the VM that existed under the entered name and its directory
\* are as create_vm found them.
C28_NoInstallLeavesVmUnchanged ==
    [][ReturnsWithoutInstall =>
          IF found = << >>
          THEN doms' = doms /\ vmdirs' = vmdirs
          ELSE /\ doms'[CURRENT_VM] = found[1].dom
               /\ (CURRENT_VM \in vmdirs') = found[1].dir]_vars

\* C29: in create_vm of winvmtui.py, while the message 'The VM is currently
\* PAUSED' is displayed the new VM is paused, whenever the virt-install in the
\* background acts; and resume is issued only from that message box, after
\* suspend was issued.
C29_PausedWhenSaidPaused ==
    /\ []((fn = "main" /\ pc = "paused_msg") => doms[CURRENT_VM] = "paused")
    /\ [][(fn = "main" /\ prog = "winvmtui"
             /\ Has(issued', Cmd("resume", CURRENT_VM))
             /\ ~Has(issued, Cmd("resume", CURRENT_VM)))
            => (pc = "paused_msg"
                  /\ Has(issued, Cmd("suspend", CURRENT_VM)))]_vars

\* create_vm_logic of vmtui.py runs and creates the disk.
CreatesDisk ==
    /\ fn = "main" /\ prog = "vmtui" /\ pc = "create"
    /\ Has(issued', Cmd("qemu-img create", CURRENT_VM))

\* C26: in vmtui.py, over any sequence of Create VM invocations, the disk is
\* created (and the VM installed) only on a base image that is complete, and
\* a file left incomplete by an earlier download is fetched again before it
\* is used.
C26_DiskOnlyOnCompleteImage ==
    [][CreatesDisk =>
          /\ img'[ret[1]] = "complete"
          /\ img[ret[1]] = "partial" => fetched' = "ok"]_vars

-----------------------------------------------------------------------------
(* Every function of the model *)

Init == InitMenus \/ InitStream \/ InitFetch \/ InitMain

Next == NextMenus \/ NextStream \/ NextFetch \/ NextMain

Spec == Init /\ [][Next]_vars

====
